---- MODULE Spec2Model ----
(***************************************************************************)
(* Model of src/extractor.py: PDFAnalyzer.analyze_pdf, the three engine    *)
(* adapters, MultiEngineExtractor._is_valid_result and                     *)
(* MultiEngineExtractor.extract.                                           *)
(*                                                                         *)
(* Python values that the code tests for truthiness or type are tagged     *)
(* records: PyNone, PyStr(<<chars>>), PyDict(<<record>>), PyOther.  A      *)
(* string is the sequence of its characters.  A dict is a TLA+ record, so  *)
(* dict.get(k, d) is Get(d, k, default).  Confidences are in tenths        *)
(* (0.9 is 9), so the interval [0,1] is 0..10.  An exception of class e is *)
(* the value Raise(e); a normal return of v is Ret(v); pc = "raised" is    *)
(* the state in which an exception has left the function.                  *)
(* processing_time is wall-clock time and is left out of extraction_info.  *)
(***************************************************************************)
EXTENDS Integers, Sequences, FiniteSets, TLC

VARIABLES
    file,                 \* the file system object behind pdf_path, and pdf_path
    DOCLING_AVAILABLE,    \* module flag, extractor.py:15-19
    TESSERACT_AVAILABLE,  \* module flag, extractor.py:22-27
    pc,                   \* position in extract / analyze_pdf / _is_valid_result
    total_pages,          \* analyze_pdf local
    has_text,             \* analyze_pdf local
    has_images,           \* analyze_pdf local
    estimated_scan_pages, \* analyze_pdf local
    inspected,            \* zero-based indices of the pages analyze_pdf has read
    analysis,             \* value returned by analyze_pdf
    engine_idx,           \* position of the for loop of extract in self.engines
    invoked,              \* history: the adapters called so far and how each ended
    ret,                  \* value returned by extract
    vin,                  \* argument of a direct call of _is_valid_result
    vout                  \* outcome of that call

vars == <<file, DOCLING_AVAILABLE, TESSERACT_AVAILABLE, pc, total_pages, has_text,
          has_images, estimated_scan_pages, inspected, analysis, engine_idx,
          invoked, ret, vin, vout>>

anVars == <<total_pages, has_text, has_images, estimated_scan_pages, inspected>>
exVars == <<engine_idx, invoked, ret>>
vlVars == <<vin, vout>>
envVars == <<file, DOCLING_AVAILABLE, TESSERACT_AVAILABLE>>

----------------------------------------------------------------------------
(* Bounds of the model *)

\* longest run of equal pages at the head of a document given to analyze_pdf
MaxRun == 5
\* number of freely chosen pages after that run
MaxTail == 1
\* number of pages of the documents given to extract
MaxDocLen == 2

----------------------------------------------------------------------------
(* Python values *)

PyNone == [t |-> "None"]
PyOther == [t |-> "other"]
PyStr(s) == [t |-> "str", v |-> s]
PyDict(d) == [t |-> "dict", v |-> d]
EmptyDict == [k \in {} |-> PyNone]

Raise(e) == [t |-> "raise", e |-> e]
Ret(v) == [t |-> "ret", v |-> v]

\* the exception classes of the model; all derive from Exception
ExceptionSubclasses ==
    {"FileNotFoundError", "PDFSyntaxError", "ValueError", "OSError",
     "ImportError", "AttributeError", "RuntimeError"}

Min(a, b) == IF a < b THEN a ELSE b
Rep(c, n) == [k \in 1..n |-> c]

\* dict.get(k, default)
Get(d, k, default) == IF k \in DOMAIN d THEN d[k] ELSE default

\* truth value of a Python value: None, "" and {} are false
Truthy(x) ==
    CASE x.t = "None" -> FALSE
      [] x.t = "str" -> Len(x.v) > 0
      [] x.t = "dict" -> DOMAIN x.v # {}
      [] OTHER -> TRUE

Whitespace == {" ", "\n", "\t"}

RECURSIVE lstrip(_)
lstrip(s) ==
    IF s = <<>> THEN <<>>
    ELSE IF Head(s) \in Whitespace THEN lstrip(Tail(s)) ELSE s

RECURSIVE rstrip(_)
rstrip(s) ==
    IF s = <<>> THEN <<>>
    ELSE IF s[Len(s)] \in Whitespace THEN rstrip(SubSeq(s, 1, Len(s) - 1)) ELSE s

\* str.strip()
strip(s) == rstrip(lstrip(s))

\* sub in s, for strings
Contains(s, sub) ==
    \E k \in 1..(Len(s) - Len(sub) + 1) : SubSeq(s, k, k + Len(sub) - 1) = sub

----------------------------------------------------------------------------
(* pathlib: Path(pdf_path).name *)

\* the components of a POSIX path: split on "/", drop "" and "."
RECURSIVE PathParts(_, _, _)
PathParts(p, cur, acc) ==
    LET keep == IF cur = <<>> \/ cur = <<".">> THEN acc ELSE Append(acc, cur)
    IN  IF p = <<>> THEN keep
        ELSE IF Head(p) = "/" THEN PathParts(Tail(p), <<>>, keep)
        ELSE PathParts(Tail(p), Append(cur, Head(p)), acc)

PathName(p) ==
    LET parts == PathParts(p, <<>>, <<>>)
    IN  IF parts = <<>> THEN <<>> ELSE parts[Len(parts)]

----------------------------------------------------------------------------
(* Inputs: pages, documents, files *)

SeqsUpTo(S, n) == UNION { [1..k -> S] : k \in 0..n }

Chars(n) == Rep("a", n)

\* a page: what page.extract_text() does (it raises, or returns None or a
\* string), whether page.images is non-empty, and the number of tables
\* page.extract_tables() finds
Pages ==
    { [text |-> PyNone, images |-> TRUE, tables |-> 0],
      [text |-> PyStr(<<>>), images |-> FALSE, tables |-> 0],
      [text |-> PyStr(<<" ", "\n">>), images |-> FALSE, tables |-> 0],
      [text |-> PyStr(<<"a">>), images |-> FALSE, tables |-> 1],
      [text |-> PyStr(<<" ">> \o Chars(49) \o <<"\n">>), images |-> FALSE, tables |-> 0],
      [text |-> PyStr(Chars(50)), images |-> FALSE, tables |-> 0],
      [text |-> PyStr(Chars(50)), images |-> TRUE, tables |-> 1],
      [text |-> Raise("ValueError"), images |-> FALSE, tables |-> 0] }

\* documents: a run of equal pages followed by free pages
DocsOf(run, tail) ==
    { Rep(p, a) \o s : p \in Pages, a \in 0..run, s \in SeqsUpTo(Pages, tail) }

Paths ==
    { <<"f">>,
      <<"d", "/", "f", ".", "p">>,
      <<"d", "/", ".">>,
      <<"/">> }

\* kind: what opening the file finds.  st_size: what stat() gives, -1 when it
\* raises.
PdfFiles(docs, paths, sizes) ==
    { [kind |-> "pdf", path |-> p, pages |-> d, st_size |-> z] :
        p \in paths, d \in docs, z \in sizes }

OtherFiles(paths) ==
    { [kind |-> k, path |-> p, pages |-> <<>>, st_size |-> IF k = "nonpdf" THEN 7 ELSE 0] :
        k \in {"nonexistent", "empty", "nonpdf"}, p \in paths }

NoValue == [t |-> "unset"]

----------------------------------------------------------------------------
(* PDFAnalyzer.analyze_pdf *)

SampleLimit == 5
ScanTextLen == 50

\* the bug "sample every page"
sample_pages_all(total) == total

\* sample_pages = min(5, total_pages)
sample_pages(total) == Min(SampleLimit, total)

\* pdf.pages[:sample_pages]
SampledPages(pages, total) == SubSeq(pages, 1, sample_pages(total))

\* if text and text.strip()
PageHasText(text) == Truthy(text) /\ Truthy(PyStr(strip(text.v)))

\* if not text or len(text.strip()) < 50
IsScanPage(text) == ~Truthy(text) \/ Len(strip(text.v)) < ScanTextLen

\* the bug "no text means OCR", which loses the false/false row
processing_strategy_ocr(ht, hi) ==
    IF ~ht THEN "ocr_heavy"
    ELSE IF ~hi THEN "text_extraction"
    ELSE "hybrid"

processing_strategy(ht, hi) ==
    IF ~ht /\ hi THEN "ocr_heavy"
    ELSE IF ht /\ ~hi THEN "text_extraction"
    ELSE "hybrid"

\* the record of the except branch
DegradedAnalysis ==
    [pages |-> 1, has_text |-> FALSE, has_images |-> FALSE,
     estimated_scan_pages |-> <<0>>, file_size |-> 0,
     processing_strategy |-> "fallback"]

\* the bug "except IOError"
analyze_catches_io(e) == e \in {"FileNotFoundError", "OSError"}

\* except Exception as e
analyze_catches(e) == e \in ExceptionSubclasses

\* the exception raised by pdfplumber.open(file_path)
OpenError(f) == IF f.kind = "nonexistent" THEN "FileNotFoundError" ELSE "PDFSyntaxError"

\* exception e inside the try of analyze_pdf: the degraded record is returned
AnalyzeExcept(e) ==
    IF analyze_catches(e)
    THEN /\ analysis' = DegradedAnalysis
         /\ pc' = "engines"
    ELSE /\ pc' = "raised"
         /\ UNCHANGED analysis

\* with pdfplumber.open(file_path) as pdf: ... the locals before the loop
AnalyzeOpen ==
    /\ pc = "start"
    /\ IF file.kind # "pdf"
       THEN /\ AnalyzeExcept(OpenError(file))
            /\ UNCHANGED anVars
       ELSE /\ total_pages' = Len(file.pages)
            /\ has_text' = FALSE
            /\ has_images' = FALSE
            /\ estimated_scan_pages' = <<>>
            /\ pc' = "sampling"
            /\ UNCHANGED <<inspected, analysis>>
    /\ UNCHANGED <<envVars, exVars, vlVars>>

\* one iteration of: for i, page in enumerate(pdf.pages[:sample_pages])
AnalyzePage ==
    /\ pc = "sampling"
    /\ Len(inspected) < Len(SampledPages(file.pages, total_pages))
    /\ LET i == Len(inspected)
           page == SampledPages(file.pages, total_pages)[i + 1]
           text == page.text
       IN  /\ inspected' = Append(inspected, i)
           /\ IF text.t = "raise"
              THEN /\ AnalyzeExcept(text.e)
                   /\ UNCHANGED <<total_pages, has_text, has_images,
                                  estimated_scan_pages>>
              ELSE /\ has_text' = (has_text \/ PageHasText(text))
                   /\ has_images' = (has_images \/ page.images)
                   /\ estimated_scan_pages' =
                        IF IsScanPage(text)
                        THEN Append(estimated_scan_pages, i)
                        ELSE estimated_scan_pages
                   /\ UNCHANGED <<pc, analysis, total_pages>>
    /\ UNCHANGED <<envVars, exVars, vlVars>>

\* after the loop: the strategy, the file size, the returned record
AnalyzeReturn ==
    /\ pc = "sampling"
    /\ Len(inspected) = Len(SampledPages(file.pages, total_pages))
    /\ IF file.st_size < 0
       THEN AnalyzeExcept("OSError")
       ELSE /\ analysis' =
                 [pages |-> total_pages, has_text |-> has_text,
                  has_images |-> has_images,
                  estimated_scan_pages |-> estimated_scan_pages,
                  file_size |-> file.st_size,
                  processing_strategy |-> processing_strategy(has_text, has_images)]
            /\ pc' = "engines"
    /\ UNCHANGED <<envVars, anVars, exVars, vlVars>>

----------------------------------------------------------------------------
(* MultiEngineExtractor._is_valid_result *)

\* the bug "bool(raw_text)": the text is not trimmed
_is_valid_result_nostrip(result) ==
    IF ~Truthy(result) \/ result.t # "dict" THEN Ret(FALSE)
    ELSE LET content == Get(result.v, "content", PyDict(EmptyDict))
         IN  IF content.t # "dict" THEN Raise("AttributeError")
             ELSE Ret(Truthy(Get(content.v, "raw_text", PyStr(<<>>))))

\* the bug "a result without tables is rejected"
_is_valid_result_tables(result) ==
    IF ~Truthy(result) \/ result.t # "dict" THEN Ret(FALSE)
    ELSE LET content == Get(result.v, "content", PyDict(EmptyDict))
         IN  IF content.t # "dict" THEN Raise("AttributeError")
             ELSE LET raw_text == Get(content.v, "raw_text", PyStr(<<>>))
                  IN  IF ~Truthy(raw_text) THEN Ret(FALSE)
                      ELSE IF raw_text.t # "str" THEN Raise("AttributeError")
                      ELSE Ret(Truthy(PyStr(strip(raw_text.v)))
                               /\ Get(content.v, "tables", <<>>) # <<>>)

_is_valid_result(result) ==
    IF ~Truthy(result) \/ result.t # "dict" THEN Ret(FALSE)
    ELSE LET content == Get(result.v, "content", PyDict(EmptyDict))
         IN  IF content.t # "dict" THEN Raise("AttributeError")
             ELSE LET raw_text == Get(content.v, "raw_text", PyStr(<<>>))
                  IN  IF ~Truthy(raw_text) THEN Ret(FALSE)
                      ELSE IF raw_text.t # "str" THEN Raise("AttributeError")
                      ELSE Ret(Truthy(PyStr(strip(raw_text.v))))

----------------------------------------------------------------------------
(* The engine adapters *)

DoclingConfidence == 9
PdfplumberConfidence == 8
PdfplumberLowConfidence == 3
TesseractConfidence == 6
DefaultConfidence == 8
FallbackConfidence == 1

\* what DocumentConverter().convert(pdf_path) followed by
\* result.document.export_to_text() can do: raise, or give a text
DoclingOutcomes ==
    { Raise("RuntimeError"),
      Ret(PyNone),
      Ret(PyStr(<<>>)),
      Ret(PyStr(<<"\n", " ">>)),
      Ret(PyStr(<<" ", "a", "\n">>)) }

_docling_extract(converted, an) ==
    IF ~DOCLING_AVAILABLE THEN Raise("ImportError")
    ELSE IF converted.t = "raise" THEN converted
    ELSE Ret(PyDict(
           [content |-> PyDict([raw_text |-> converted.v, pages |-> <<>>,
                                tables |-> <<>>, images |-> <<>>]),
            metadata |-> [total_pages |-> Get(an, "pages", 0),
                          text_extraction_method |-> "native"],
            confidence |-> DoclingConfidence]))

\* page.extract_text() or ""
TextOrEmpty(text) == IF Truthy(text) THEN text.v ELSE <<>>

\* raw_text += page_text + "\n", over all pages
RECURSIVE RawTextOf(_)
RawTextOf(pages) ==
    IF pages = <<>> THEN <<>>
    ELSE TextOrEmpty(Head(pages).text) \o <<"\n">> \o RawTextOf(Tail(pages))

\* the flat table list: one record per table, tagged with page and index
RECURSIVE TablesOf(_, _)
TablesOf(pages, i) ==
    IF i > Len(pages) THEN <<>>
    ELSE [j \in 1..pages[i].tables |->
            [page |-> i, table_id |-> j - 1, data |-> "table"]]
         \o TablesOf(pages, i + 1)

_pdfplumber_extract(f) ==
    IF f.kind # "pdf" THEN Raise(OpenError(f))
    ELSE IF \E k \in 1..Len(f.pages) : f.pages[k].text.t = "raise"
    THEN Raise("ValueError")
    ELSE LET raw_text == RawTextOf(f.pages)
         IN  Ret(PyDict(
               [content |-> PyDict(
                   [raw_text |-> PyStr(raw_text),
                    pages |-> [k \in 1..Len(f.pages) |->
                                 [page_num |-> k,
                                  text |-> TextOrEmpty(f.pages[k].text),
                                  tables |-> <<>>, images |-> <<>>]],
                    tables |-> TablesOf(f.pages, 1),
                    images |-> <<>>]),
                metadata |-> [total_pages |-> Len(f.pages),
                              text_extraction_method |-> "native"],
                confidence |-> IF Truthy(PyStr(strip(raw_text)))
                               THEN PdfplumberConfidence
                               ELSE PdfplumberLowConfidence]))

\* "OCR extraction placeholder - implementation needed"
OcrPlaceholder ==
    <<"O", "C", "R", " ", "e", "x", "t", "r", "a", "c", "t", "i", "o", "n",
      " ", "p", "l", "a", "c", "e", "h", "o", "l", "d", "e", "r", " ", "-",
      " ", "i", "m", "p", "l", "e", "m", "e", "n", "t", "a", "t", "i", "o",
      "n", " ", "n", "e", "e", "d", "e", "d">>

\* the bug "OCR not implemented gives no text"
_tesseract_extract_empty(an) ==
    IF ~TESSERACT_AVAILABLE THEN Raise("ImportError")
    ELSE Ret(PyDict(
           [content |-> PyDict([raw_text |-> PyStr(<<>>), pages |-> <<>>,
                                tables |-> <<>>, images |-> <<>>]),
            metadata |-> [total_pages |-> Get(an, "pages", 0),
                          text_extraction_method |-> "ocr"],
            confidence |-> TesseractConfidence]))

_tesseract_extract(an) ==
    IF ~TESSERACT_AVAILABLE THEN Raise("ImportError")
    ELSE Ret(PyDict(
           [content |-> PyDict([raw_text |-> PyStr(OcrPlaceholder), pages |-> <<>>,
                                tables |-> <<>>, images |-> <<>>]),
            metadata |-> [total_pages |-> Get(an, "pages", 0),
                          text_extraction_method |-> "ocr"],
            confidence |-> TesseractConfidence]))

----------------------------------------------------------------------------
(* MultiEngineExtractor.extract *)

\* the bug "native text first"
engines_swapped == <<"pdfplumber", "docling", "tesseract">>

\* self.engines, in order
engines == <<"docling", "pdfplumber", "tesseract">>

\* "Failed to extract content from "
FailedPrefix ==
    <<"F", "a", "i", "l", "e", "d", " ", "t", "o", " ", "e", "x", "t", "r",
      "a", "c", "t", " ", "c", "o", "n", "t", "e", "n", "t", " ", "f", "r",
      "o", "m", " ">>

\* the bug "the reported confidence is ignored"
SuccessResult_fixedconf(engine_name, result) ==
    [extraction_info |->
        [file_name |-> PathName(file.path),
         engine_used |-> <<engine_name>>,
         status |-> "success",
         confidence |-> DefaultConfidence],
     content |-> Get(result.v, "content", PyDict(EmptyDict)),
     metadata |-> Get(result.v, "metadata", EmptyDict)]

SuccessResult(engine_name, result) ==
    [extraction_info |->
        [file_name |-> PathName(file.path),
         engine_used |-> <<engine_name>>,
         status |-> "success",
         confidence |-> Get(result.v, "confidence", DefaultConfidence)],
     content |-> Get(result.v, "content", PyDict(EmptyDict)),
     metadata |-> Get(result.v, "metadata", EmptyDict)]

\* the bug "the fallback result ignores the analysis"
FallbackResult_nopages(pdf_path, an) ==
    [extraction_info |->
        [file_name |-> PathName(pdf_path),
         engine_used |-> <<"fallback">>,
         status |-> "fallback",
         confidence |-> FallbackConfidence],
     content |-> PyDict([raw_text |-> PyStr(FailedPrefix \o PathName(pdf_path)),
                         pages |-> <<>>, tables |-> <<>>, images |-> <<>>]),
     metadata |-> [total_pages |-> 0,
                   text_extraction_method |-> "fallback"]]

FallbackResult(pdf_path, an) ==
    [extraction_info |->
        [file_name |-> PathName(pdf_path),
         engine_used |-> <<"fallback">>,
         status |-> "fallback",
         confidence |-> FallbackConfidence],
     content |-> PyDict([raw_text |-> PyStr(FailedPrefix \o PathName(pdf_path)),
                         pages |-> <<>>, tables |-> <<>>, images |-> <<>>]),
     metadata |-> [total_pages |-> Get(an, "pages", 0),
                   text_extraction_method |-> "fallback"]]

\* the bug "except ImportError"
extract_catches_import(e) == e = "ImportError"

\* except Exception as e
extract_catches(e) == e \in ExceptionSubclasses

\* the body of the for loop for one engine: the adapter ended as out.  The
\* call of the adapter and the validation are both inside the try.
Attempt(engine_name, out) ==
    LET valid == IF out.t = "raise" THEN out ELSE _is_valid_result(out.v)
    IN  /\ invoked' = Append(invoked, [engine |-> engine_name, out |-> out])
        /\ IF valid.t = "raise"
           THEN IF extract_catches(valid.e)
                THEN /\ engine_idx' = engine_idx + 1
                     /\ UNCHANGED <<ret, pc>>
                ELSE /\ pc' = "raised"
                     /\ UNCHANGED <<ret, engine_idx>>
           ELSE IF valid.v
                THEN /\ ret' = SuccessResult(engine_name, out.v)
                     /\ pc' = "done"
                     /\ UNCHANGED engine_idx
                ELSE /\ engine_idx' = engine_idx + 1
                     /\ UNCHANGED <<ret, pc>>

AtEngine(engine_name) ==
    /\ pc = "engines"
    /\ engine_idx <= Len(engines)
    /\ engines[engine_idx] = engine_name

TryDocling ==
    /\ AtEngine("docling")
    /\ \E converted \in DoclingOutcomes :
          Attempt("docling", _docling_extract(converted, analysis))
    /\ UNCHANGED <<envVars, anVars, analysis, vlVars>>

TryPdfplumber ==
    /\ AtEngine("pdfplumber")
    /\ Attempt("pdfplumber", _pdfplumber_extract(file))
    /\ UNCHANGED <<envVars, anVars, analysis, vlVars>>

TryTesseract ==
    /\ AtEngine("tesseract")
    /\ Attempt("tesseract", _tesseract_extract(analysis))
    /\ UNCHANGED <<envVars, anVars, analysis, vlVars>>

\* Step 3: all engines failed
ReturnFallback ==
    /\ pc = "engines"
    /\ engine_idx > Len(engines)
    /\ ret' = FallbackResult(file.path, analysis)
    /\ pc' = "done"
    /\ UNCHANGED <<envVars, anVars, analysis, engine_idx, invoked, vlVars>>

----------------------------------------------------------------------------
(* A direct call of _is_valid_result *)

Validate ==
    /\ pc = "validate"
    /\ vout' = _is_valid_result(vin)
    /\ pc' = "validated"
    /\ UNCHANGED <<envVars, anVars, analysis, exVars, vin>>

----------------------------------------------------------------------------
(* Specifications *)

InitLocals ==
    /\ total_pages = 0
    /\ has_text = FALSE
    /\ has_images = FALSE
    /\ estimated_scan_pages = <<>>
    /\ inspected = <<>>
    /\ analysis = NoValue
    /\ engine_idx = 1
    /\ invoked = <<>>
    /\ ret = NoValue

\* extract(pdf_path)
Init ==
    /\ file \in PdfFiles(SeqsUpTo(Pages, MaxDocLen), Paths, {-1, 1234})
                  \cup OtherFiles(Paths)
    /\ DOCLING_AVAILABLE \in BOOLEAN
    /\ TESSERACT_AVAILABLE \in BOOLEAN
    /\ pc = "start"
    /\ InitLocals
    /\ vin = NoValue
    /\ vout = NoValue

Next ==
    \/ AnalyzeOpen
    \/ AnalyzePage
    \/ AnalyzeReturn
    \/ TryDocling
    \/ TryPdfplumber
    \/ TryTesseract
    \/ ReturnFallback

Spec == Init /\ [][Next]_vars

\* PDFAnalyzer.analyze_pdf(file_path)
InitAnalyze ==
    /\ file \in PdfFiles(DocsOf(MaxRun, MaxTail), {<<"f">>}, {-1, 1234})
                  \cup OtherFiles({<<"f">>})
    /\ DOCLING_AVAILABLE = FALSE
    /\ TESSERACT_AVAILABLE = FALSE
    /\ pc = "start"
    /\ InitLocals
    /\ vin = NoValue
    /\ vout = NoValue

NextAnalyze ==
    \/ AnalyzeOpen
    \/ AnalyzePage
    \/ AnalyzeReturn

SpecAnalyze == InitAnalyze /\ [][NextAnalyze]_vars

\* _is_valid_result(result), called directly
ResultTexts ==
    { PyNone, PyStr(<<>>), PyStr(<<" ">>), PyStr(<<"\n", "\t", " ">>),
      PyStr(<<"a">>), PyStr(<<" ", "a", "\n">>) }

\* results of the shape the adapters build
ShapedResults ==
    { PyDict([content |-> PyDict([raw_text |-> t, pages |-> ps, tables |-> tb,
                                  images |-> im]),
              metadata |-> [total_pages |-> 1, text_extraction_method |-> "native"],
              confidence |-> c]) :
        t \in ResultTexts,
        ps \in {<<>>, <<[page_num |-> 1, text |-> <<"a">>, tables |-> <<>>,
                         images |-> <<>>]>>},
        tb \in {<<>>, <<[page |-> 1, table_id |-> 0, data |-> "table"]>>},
        im \in {<<>>, <<"image">>},
        c \in {DoclingConfidence, PdfplumberConfidence, PdfplumberLowConfidence,
               TesseractConfidence} }

\* results of other shapes: None, a non-dict, {}, no content, no raw_text,
\* content None, raw_text neither a string nor None
OddResults ==
    { PyNone,
      PyOther,
      PyDict(EmptyDict),
      PyDict([confidence |-> DoclingConfidence]),
      PyDict([content |-> PyDict(EmptyDict)]),
      PyDict([content |-> PyDict([pages |-> <<>>])]),
      PyDict([content |-> PyNone]),
      PyDict([content |-> PyDict([raw_text |-> PyOther])]) }

InitValid ==
    /\ file = [kind |-> "nonexistent", path |-> <<"f">>, pages |-> <<>>, st_size |-> 0]
    /\ DOCLING_AVAILABLE = FALSE
    /\ TESSERACT_AVAILABLE = FALSE
    /\ pc = "validate"
    /\ InitLocals
    /\ vin \in ShapedResults \cup OddResults
    /\ vout = NoValue

NextValid == Validate

SpecValid == InitValid /\ [][NextValid]_vars

----------------------------------------------------------------------------
(* Notions the properties are stated in *)

\* s has a character that is not whitespace
NonBlank(s) == \E k \in 1..Len(s) : s[k] \notin Whitespace

\* number of characters of s from its first to its last non-whitespace one
TrimmedLen(s) ==
    IF ~NonBlank(s) THEN 0
    ELSE LET idx == {k \in 1..Len(s) : s[k] \notin Whitespace}
             lo == CHOOSE k \in idx : \A j \in idx : k <= j
             hi == CHOOSE k \in idx : \A j \in idx : k >= j
         IN  hi - lo + 1

\* r is a record with a content.raw_text that is non-empty after trimming
HasText(r) ==
    /\ r.t = "dict"
    /\ "content" \in DOMAIN r.v
    /\ r.v.content.t = "dict"
    /\ "raw_text" \in DOMAIN r.v.content.v
    /\ r.v.content.v.raw_text.t = "str"
    /\ NonBlank(r.v.content.v.raw_text.v)

\* the adapter returned normally with a valid result
ValidOut(out) == out.t = "ret" /\ HasText(out.v)

\* content is a dict when present, and raw_text a string or None when present
Shaped(r) ==
    r.t = "dict" /\ "content" \in DOMAIN r.v =>
        /\ r.v.content.t = "dict"
        /\ "raw_text" \in DOMAIN r.v.content.v =>
               r.v.content.v.raw_text.t \in {"str", "None"}

\* the number of pages analyze_pdf is to read
SampleSize == IF Len(file.pages) < 5 THEN Len(file.pages) ELSE 5

\* nothing fails inside analyze_pdf: the file opens, the sampled pages give
\* their text, stat() gives the size
AnalysisSucceeds ==
    /\ file.kind = "pdf"
    /\ \A k \in 1..SampleSize : file.pages[k].text.t # "raise"
    /\ file.st_size >= 0

Done == pc = "done"
Analyzed == pc = "engines"

info == ret.extraction_info
LastInvoked == invoked[Len(invoked)]
NoneValid == \A k \in 1..Len(invoked) : ~ValidOut(invoked[k].out)

----------------------------------------------------------------------------
(* Properties *)

\* C1: extract never raises and returns a well-formed result for every file
\* and every combination of engine outcomes: no exception leaves the call,
\* the loop goes on after every adapter, and the returned result has status
\* success or fallback,
\* a one-element engine list and a content.raw_text that is present and is
\* not None.
C1_Totality ==
    /\ pc # "raised"
    /\ pc = "engines" => engine_idx = Len(invoked) + 1
    /\ Done =>
        /\ info.status \in {"success", "fallback"}
        /\ Len(info.engine_used) = 1
        /\ ret.content.t = "dict"
        /\ "raw_text" \in DOMAIN ret.content.v
        /\ ret.content.v.raw_text.t = "str"

\* an empty file, all three engines raised, and extract returned
C1_Witness ==
    /\ Done
    /\ file.kind = "empty"
    /\ Len(invoked) = 3
    /\ \A k \in 1..3 : invoked[k].out.t = "raise"
    /\ info.status = "fallback"

\* C2: the engines are invoked in the order docling, pdfplumber, tesseract,
\* each at most once; no engine is invoked after one returned a valid
\* result; the loop ends exactly at the first valid result and engine_used
\* names that engine; a raise or an invalid result never ends the loop.
C2_PriorityOrder ==
    /\ Len(invoked) <= 3
    /\ \A k \in 1..Len(invoked) :
          invoked[k].engine = <<"docling", "pdfplumber", "tesseract">>[k]
    /\ \A k \in 1..(Len(invoked) - 1) : ~ValidOut(invoked[k].out)
    /\ (invoked # <<>> /\ ValidOut(LastInvoked.out)) =>
          Done /\ info.engine_used = <<LastInvoked.engine>>
    /\ (Done /\ NoneValid) => Len(invoked) = 3
    /\ pc = "engines" => engine_idx = Len(invoked) + 1

\* docling returned an invalid result, pdfplumber a valid one, and tesseract,
\* though available, was not invoked
C2_Witness ==
    /\ Done
    /\ TESSERACT_AVAILABLE
    /\ Len(invoked) = 2
    /\ invoked[1].out.t = "ret"
    /\ ValidOut(invoked[2].out)
    /\ info.engine_used = <<"pdfplumber">>

\* C3: extract returns the fallback result if and only if none of the three
\* engines returned a valid result, and that result has status fallback,
\* engine_used [fallback], confidence 0.1, a raw_text that contains the
\* file's name, empty pages, tables and images, total_pages equal to the
\* page count of the analysis and text_extraction_method fallback.
C3_Fallback ==
    Done =>
        /\ info.status = "fallback" <=> (Len(invoked) = 3 /\ NoneValid)
        /\ info.status = "fallback" =>
            /\ info.engine_used = <<"fallback">>
            /\ info.confidence = 1
            /\ ret.content.v.raw_text.t = "str"
            /\ Contains(ret.content.v.raw_text.v, PathName(file.path))
            /\ Len(ret.content.v.raw_text.v) > Len(PathName(file.path))
            /\ ret.content.v.pages = <<>>
            /\ ret.content.v.tables = <<>>
            /\ ret.content.v.images = <<>>
            /\ ret.metadata.total_pages = analysis.pages
            /\ ret.metadata.text_extraction_method = "fallback"

\* a two-page PDF in a directory whose three engines all returned nothing
\* valid, docling and pdfplumber by returning blank text
C3_Witness ==
    /\ Done
    /\ info.status = "fallback"
    /\ file.kind = "pdf"
    /\ analysis.pages = 2
    /\ file.path = <<"d", "/", "f", ".", "p">>
    /\ invoked[1].out.t = "ret"
    /\ invoked[2].out.t = "ret"

\* C4: when the analysis succeeds, the strategy is the decision table applied
\* to (has_text, has_images): (false,true) ocr_heavy, (true,false)
\* text_extraction, (true,true) hybrid, (false,false) hybrid; a zero-page
\* document gives pages 0, no sampled page, both flags false and hybrid.
C4_StrategyTable ==
    (Analyzed /\ AnalysisSucceeds) =>
        /\ analysis.processing_strategy =
              CASE ~analysis.has_text /\ analysis.has_images -> "ocr_heavy"
                [] analysis.has_text /\ ~analysis.has_images -> "text_extraction"
                [] analysis.has_text /\ analysis.has_images -> "hybrid"
                [] ~analysis.has_text /\ ~analysis.has_images -> "hybrid"
        /\ file.pages = <<>> =>
              /\ analysis.pages = 0
              /\ inspected = <<>>
              /\ ~analysis.has_text
              /\ ~analysis.has_images
              /\ analysis.estimated_scan_pages = <<>>
              /\ analysis.processing_strategy = "hybrid"

\* the analysis of a zero-page PDF has returned
C4_Witness ==
    /\ Analyzed
    /\ AnalysisSucceeds
    /\ file.pages = <<>>
    /\ analysis.processing_strategy = "hybrid"

\* C5: analyze_pdf never raises and always returns a strategy among
\* text_extraction, ocr_heavy, hybrid, fallback; on any internal failure
\* (the file does not open, a sampled page fails, stat fails) it returns
\* exactly pages 1, both flags false, estimated_scan_pages [0], file_size 0,
\* strategy fallback.
C5_NeverRaises ==
    /\ pc # "raised"
    /\ Analyzed =>
        /\ analysis.processing_strategy \in
              {"text_extraction", "ocr_heavy", "hybrid", "fallback"}
        /\ ~AnalysisSucceeds =>
              analysis = [pages |-> 1, has_text |-> FALSE, has_images |-> FALSE,
                          estimated_scan_pages |-> <<0>>, file_size |-> 0,
                          processing_strategy |-> "fallback"]
        /\ AnalysisSucceeds => analysis.processing_strategy # "fallback"

\* a PDF of three pages whose third page failed to give its text
C5_Witness ==
    /\ Analyzed
    /\ file.kind = "pdf"
    /\ Len(file.pages) = 3
    /\ file.pages[3].text.t = "raise"
    /\ inspected = <<0, 1, 2>>
    /\ analysis.processing_strategy = "fallback"

\* C6: for every adapter result _is_valid_result returns a boolean, and it
\* returns true if and only if the result is a record with a content.raw_text
\* that is non-empty after trimming whitespace, whatever its tables, images,
\* confidence and pages.
C6_Validator ==
    (pc = "validated" /\ Shaped(vin)) =>
        /\ vout.t = "ret"
        /\ vout.v \in BOOLEAN
        /\ vout.v <=> HasText(vin)

\* a result with tables and whitespace-only text was judged invalid
C6_Witness ==
    /\ pc = "validated"
    /\ vin \in ShapedResults
    /\ vin.v.content.v.raw_text = PyStr(<<"\n", "\t", " ">>)
    /\ vin.v.content.v.tables # <<>>
    /\ vout = Ret(FALSE)

\* C7: the confidence of every returned result is present and in [0,1]; on a
\* success it is the confidence the winning adapter reported, 0.8 when it
\* reported none; on the fallback result it is 0.1.
C7_Confidence ==
    /\ SuccessResult("docling",
          PyDict([content |-> PyDict([raw_text |-> PyStr(<<"a">>)])])
       ).extraction_info.confidence = 8
    /\ Done =>
        /\ "confidence" \in DOMAIN info
        /\ info.confidence \in 0..10
        /\ info.status = "success" =>
              /\ "confidence" \in DOMAIN LastInvoked.out.v.v
              /\ info.confidence = LastInvoked.out.v.v.confidence
        /\ info.status = "fallback" => info.confidence = 1

\* docling won and its 0.9 is the confidence of the result
C7_Witness ==
    /\ Done
    /\ info.status = "success"
    /\ LastInvoked.engine = "docling"
    /\ info.confidence = 9

\* C8: analyze_pdf reads the pages 0, 1, ... in order and never a page of
\* index 5 or more; when the analysis succeeds it has read exactly
\* min(5, page count) pages, has_text and has_images are those of the
\* pages read, and estimated_scan_pages is the increasing list of the read
\* indices whose text is absent or shorter than 50 characters after
\* trimming.
C8_Sampling ==
    /\ Len(inspected) <= SampleSize
    /\ \A k \in 1..Len(inspected) : inspected[k] = k - 1
    /\ (Analyzed /\ AnalysisSucceeds) =>
        LET short == { i \in 0..(SampleSize - 1) :
                         \/ file.pages[i + 1].text.t = "None"
                         \/ TrimmedLen(file.pages[i + 1].text.v) < 50 }
            scan == analysis.estimated_scan_pages
        IN  /\ Len(inspected) = SampleSize
            /\ analysis.pages = Len(file.pages)
            /\ analysis.has_text <=>
                  \E i \in 1..SampleSize :
                      /\ file.pages[i].text.t = "str"
                      /\ NonBlank(file.pages[i].text.v)
            /\ analysis.has_images <=> \E i \in 1..SampleSize : file.pages[i].images
            /\ \A k \in 1..(Len(scan) - 1) : scan[k] < scan[k + 1]
            /\ { scan[k] : k \in 1..Len(scan) } = short

\* a six-page PDF whose sixth page alone has an image and no text: five
\* pages read, no image seen, no scan page
C8_Witness ==
    /\ Analyzed
    /\ AnalysisSucceeds
    /\ Len(file.pages) = 6
    /\ file.pages[6].images
    /\ file.pages[6].text.t = "None"
    /\ Len(inspected) = 5
    /\ ~analysis.has_images
    /\ analysis.estimated_scan_pages = <<>>

\* C9: when TESSERACT_AVAILABLE is true extract never returns the fallback
\* result, for any file: if docling and pdfplumber gave nothing valid the
\* result is a success of tesseract with confidence 0.6 and method ocr, its
\* text the constant placeholder; the fallback result occurs only when
\* TESSERACT_AVAILABLE is false.
C9_OcrNeverFallback ==
    Done =>
        /\ TESSERACT_AVAILABLE => info.status = "success"
        /\ info.status = "fallback" => ~TESSERACT_AVAILABLE
        /\ (TESSERACT_AVAILABLE /\ Len(invoked) = 3) =>
              /\ info.engine_used = <<"tesseract">>
              /\ info.confidence = 6
              /\ ret.metadata.text_extraction_method = "ocr"
              /\ ret.content.v.raw_text.t = "str"
              /\ Len(ret.content.v.raw_text.v) = 50
              /\ NonBlank(ret.content.v.raw_text.v)

\* a nonexistent file, tesseract available: a success of tesseract
C9_Witness ==
    /\ Done
    /\ TESSERACT_AVAILABLE
    /\ file.kind = "nonexistent"
    /\ Len(invoked) = 3
    /\ info.status = "success"

\* C10: the confidence of a returned result is determined by engine_used
\* (docling 0.9, pdfplumber 0.8, tesseract 0.6, fallback 0.1); pdfplumber
\* reports 0.3 exactly when its raw_text is blank, which is never valid, so
\* 0.3 is never returned, and a success has confidence at least 0.6 and a
\* raw_text that is not blank.
C10_ConfidenceByEngine ==
    /\ \A k \in 1..Len(invoked) :
          (invoked[k].engine = "pdfplumber" /\ invoked[k].out.t = "ret") =>
              LET r == invoked[k].out.v.v
              IN  /\ r.confidence = 3 <=> ~NonBlank(r.content.v.raw_text.v)
                  /\ r.confidence = 8 <=> NonBlank(r.content.v.raw_text.v)
    /\ Done =>
        /\ info.confidence =
              CASE info.engine_used = <<"docling">> -> 9
                [] info.engine_used = <<"pdfplumber">> -> 8
                [] info.engine_used = <<"tesseract">> -> 6
                [] info.engine_used = <<"fallback">> -> 1
        /\ info.confidence # 3
        /\ info.status = "success" =>
              /\ info.confidence >= 6
              /\ ret.content.v.raw_text.t = "str"
              /\ NonBlank(ret.content.v.raw_text.v)

\* pdfplumber reported 0.3 for a blank text and tesseract won
C10_Witness ==
    /\ Done
    /\ Len(invoked) = 3
    /\ invoked[2].out.t = "ret"
    /\ invoked[2].out.v.v.confidence = 3
    /\ info.engine_used = <<"tesseract">>

====
